---- MODULE Spec2Model ----
(***************************************************************************)
(* GitLens extension activation and settings migration                     *)
(* (src/src/extension.ts): activate, migrateSettings and the collaborators *)
(* they call (Versions, configuration.migrate / migrateIfMissing).         *)
(***************************************************************************)
EXTENDS Integers, Sequences, FiniteSets, TLC

(***************************************************************************)
(* Bounds of the model.                                                    *)
(***************************************************************************)
\* longest highlight-locations list drawn for the initial document
MaxLen == 2
\* number of activations (process starts) followed in one behaviour
MaxActivations == 2

(***************************************************************************)
(* Values.  A JavaScript `undefined` (an absent setting, an absent marker, *)
(* an absent option) is the value Undefined.                               *)
(***************************************************************************)
\* Every value of the model is a tuple of strings, so that any two compare.
Undefined == <<"undefined">>

\* what a failed Versions.fromString yields in the model: the exception
ParseError == [error |-> "ParseError"]

(***************************************************************************)
(* Version strings are sequences of one-character strings, so that parsing *)
(* is computed rather than assumed.                                         *)
(***************************************************************************)
Digits == <<"0", "1", "2", "3", "4", "5", "6", "7", "8", "9">>

IsDigit(c) == \E i \in 1..Len(Digits) : Digits[i] = c

DigitValue(c) == (CHOOSE i \in 1..Len(Digits) : Digits[i] = c) - 1

\* characters in collation order: digits before letters, letters alphabetical
\* (the order String.prototype.localeCompare gives pre-release tags)
Alphabet == Digits \o <<"a", "b", "c", "e", "r", "t", "x">>

CharOrd(c) == CHOOSE i \in 1..Len(Alphabet) : Alphabet[i] = c

\* first index of character c in s, 0 when absent: String.prototype.indexOf + 1
IndexOfChar(s, c) ==
    IF \E i \in 1..Len(s) : s[i] = c
    THEN CHOOSE i \in 1..Len(s) : s[i] = c /\ \A j \in 1..(i - 1) : s[j] # c
    ELSE 0

\* String.prototype.split(sep): the pieces of s between occurrences of sep
RECURSIVE Split(_, _)
Split(s, sep) ==
    LET i == IndexOfChar(s, sep)
    IN  IF i = 0 THEN <<s>>
        ELSE <<SubSeq(s, 1, i - 1)>> \o Split(SubSeq(s, i + 1, Len(s)), sep)

\* a non-empty run of decimal digits
IsNumber(s) == Len(s) > 0 /\ \A i \in 1..Len(s) : IsDigit(s[i])

\* parseInt(s, 10) of a run of digits
RECURSIVE ParseInt(_)
ParseInt(s) ==
    IF Len(s) = 0 THEN 0
    ELSE 10 * ParseInt(SubSeq(s, 1, Len(s) - 1)) + DigitValue(s[Len(s)])

\* Versions.from(major, minor, patch, pre?)
from(major, minor, patch, pre) ==
    [major |-> major, minor |-> minor, patch |-> patch, pre |-> pre]

\* Versions.fromString(version): "major.minor.patch" with an optional
\* "-pre" suffix; anything else fails with a ParseError
fromString(version) ==
    IF version = Undefined THEN ParseError
    ELSE
    LET dash  == Split(version, "-")
        ver   == dash[1]
        pre   == IF Len(dash) > 1 THEN dash[2] ELSE Undefined
        parts == Split(ver, ".")
    IN  IF /\ Len(dash) <= 2
           /\ Len(parts) = 3
           /\ \A i \in 1..3 : IsNumber(parts[i])
           /\ (pre # Undefined => Len(pre) > 0)
        THEN from(ParseInt(parts[1]), ParseInt(parts[2]), ParseInt(parts[3]), pre)
        ELSE ParseError

\* lexical comparison of two pre-release tags: -1, 0 or 1
RECURSIVE localeCompare(_, _)
localeCompare(a, b) ==
    IF Len(a) = 0 /\ Len(b) = 0 THEN 0
    ELSE IF Len(a) = 0 THEN -1
    ELSE IF Len(b) = 0 THEN 1
    ELSE IF CharOrd(a[1]) < CharOrd(b[1]) THEN -1
    ELSE IF CharOrd(a[1]) > CharOrd(b[1]) THEN 1
    ELSE localeCompare(Tail(a), Tail(b))

\* Versions.compare(v1, v2): major, minor, patch numerically, then a
\* pre-release before the release, two pre-releases lexically
compare(v1, v2) ==
    IF v1.major > v2.major THEN 1
    ELSE IF v1.major < v2.major THEN -1
    ELSE IF v1.minor > v2.minor THEN 1
    ELSE IF v1.minor < v2.minor THEN -1
    ELSE IF v1.patch > v2.patch THEN 1
    ELSE IF v1.patch < v2.patch THEN -1
    ELSE IF v1.pre = Undefined /\ v2.pre # Undefined THEN 1
    ELSE IF v1.pre # Undefined /\ v2.pre = Undefined THEN -1
    ELSE IF v1.pre # Undefined /\ v2.pre # Undefined THEN localeCompare(v1.pre, v2.pre)
    ELSE 0

(***************************************************************************)
(* Configuration values: strings, booleans and lists, tagged so that a     *)
(* value of the wrong type for its key stays distinguishable.              *)
(***************************************************************************)
Str(x) == <<"str", x>>

True == <<"bool", "true">>

False == <<"bool", "false">>

List(l) == <<"list">> \o l

IsList(v) == v[1] = "list"

Elems(v) == Tail(v)

\* JavaScript truthiness of a configuration value
Truthy(v) == v # Undefined /\ v # False /\ v # Str("")

\* what a transform that throws yields in the model
Throw == <<"throw">>

\* OutputLevel.Debug, KeyMap.Alternate
OutputLevelDebug == Str("debug")

KeyMapAlternate == Str("alternate")

(***************************************************************************)
(* The migration registry of migrateSettings: the renames of the 7.5.10    *)
(* pass, repeated by the 8.0.0 "if missing" pass, and the three batches in *)
(* between and after.  fn names the migrationFn of the call.               *)
(***************************************************************************)
Rename(src, dst, fn) == [src |-> src, dst |-> dst, fn |-> fn]

\* line 123 with the source of the neighbouring line 122
HoversCurrentLineEnabled_wrongSource ==
    Rename("annotations.line.trailing.hover.details", "hovers.currentLine.enabled", "none")

\* lines 123 and 209: blame.line.enabled also goes to hovers.currentLine.enabled
HoversCurrentLineEnabled ==
    Rename("blame.line.enabled", "hovers.currentLine.enabled", "none")

Renames == <<
    Rename("annotations.file.gutter.gravatars", "blame.avatars", "none"),
    Rename("annotations.file.gutter.compact", "blame.compact", "none"),
    Rename("annotations.file.gutter.dateFormat", "blame.dateFormat", "none"),
    Rename("annotations.file.gutter.format", "blame.format", "none"),
    Rename("annotations.file.gutter.heatmap.enabled", "blame.heatmap.enabled", "none"),
    Rename("annotations.file.gutter.heatmap.location", "blame.heatmap.location", "none"),
    Rename("annotations.file.gutter.lineHighlight.enabled", "blame.highlight.enabled", "none"),
    Rename("annotations.file.gutter.lineHighlight.locations", "blame.highlight.locations", "none"),
    Rename("annotations.file.gutter.separateLines", "blame.separateLines", "none"),
    Rename("codeLens.locations", "codeLens.scopes", "none"),
    Rename("codeLens.perLanguageLocations", "codeLens.scopesByLanguage", "scopes"),
    Rename("codeLens.customLocationSymbols", "codeLens.symbolScopes", "none"),
    Rename("annotations.line.trailing.dateFormat", "currentLine.dateFormat", "none"),
    Rename("blame.line.enabled", "currentLine.enabled", "none"),
    Rename("annotations.line.trailing.format", "currentLine.format", "none"),
    Rename("annotations.file.gutter.hover.changes", "hovers.annotations.changes", "none"),
    Rename("annotations.file.gutter.hover.details", "hovers.annotations.details", "none"),
    Rename("annotations.file.gutter.hover.details", "hovers.annotations.enabled", "none"),
    Rename("annotations.file.gutter.hover.wholeLine", "hovers.annotations.over", "over"),
    Rename("annotations.line.trailing.hover.changes", "hovers.currentLine.changes", "none"),
    Rename("annotations.line.trailing.hover.details", "hovers.currentLine.details", "none"),
    HoversCurrentLineEnabled,
    Rename("annotations.line.trailing.hover.wholeLine", "hovers.currentLine.over", "over"),
    Rename("gitExplorer.gravatars", "explorers.avatars", "none"),
    Rename("gitExplorer.commitFileFormat", "explorers.commitFileFormat", "none"),
    Rename("gitExplorer.commitFormat", "explorers.commitFormat", "none"),
    Rename("gitExplorer.stashFileFormat", "explorers.stashFileFormat", "none"),
    Rename("gitExplorer.stashFormat", "explorers.stashFormat", "none"),
    Rename("gitExplorer.statusFileFormat", "explorers.statusFileFormat", "none"),
    Rename("recentChanges.file.lineHighlight.locations", "recentChanges.highlight.locations", "none")
>>

Rule(kind, src, dst, fn, fallback) ==
    [kind |-> kind, src |-> src, dst |-> dst, fn |-> fn, fallback |-> fallback]

\* lines 84-135: configuration.migrate of every rename
OverwritePass ==
    [i \in 1..Len(Renames) |->
        Rule("migrate", Renames[i].src, Renames[i].dst, Renames[i].fn, Undefined)]

\* lines 139-142: debug -> outputLevel, then debug -> undefined
DebugBatch == <<
    Rule("migrate", "debug", "outputLevel", "outputLevel", Undefined),
    Rule("migrate", "debug", "debug", "undefined", Undefined)
>>

\* lines 146-166: 'overviewRuler' -> 'overview' inside the two location lists
OverviewBatch == <<
    Rule("migrate", "blame.highlight.locations", "blame.highlight.locations",
         "overview", Undefined),
    Rule("migrate", "recentChanges.highlight.locations",
         "recentChanges.highlight.locations", "overview", Undefined)
>>

\* lines 170-221: configuration.migrateIfMissing of every rename
\* lines 170-221 calling migrate where the source calls migrateIfMissing
BackfillPass_overwrites ==
    [i \in 1..Len(Renames) |->
        Rule("migrate", Renames[i].src, Renames[i].dst, Renames[i].fn, Undefined)]

BackfillPass ==
    [i \in 1..Len(Renames) |->
        Rule("migrateIfMissing", Renames[i].src, Renames[i].dst, Renames[i].fn, Undefined)]

\* lines 225-229: keymap 'standard' -> KeyMap.Alternate, fallback KeyMap.Alternate
KeymapBatch == <<
    Rule("migrate", "keymap", "keymap", "keymap", KeyMapAlternate)
>>

\* the 8.0.0-rc block placed before the 8.0.0-beta2 block
Batches_rcFirst == <<
    [threshold |-> from(7, 5, 10, Undefined), rules |-> OverwritePass],
    [threshold |-> from(8, 0, 0, <<"r", "c">>), rules |-> OverviewBatch],
    [threshold |-> from(8, 0, 0, <<"b", "e", "t", "a", "2">>), rules |-> DebugBatch],
    [threshold |-> from(8, 0, 0, Undefined), rules |-> BackfillPass],
    [threshold |-> from(8, 0, 2, Undefined), rules |-> KeymapBatch]
>>

\* the version-gated blocks of migrateSettings, in source order
Batches == <<
    [threshold |-> from(7, 5, 10, Undefined), rules |-> OverwritePass],
    [threshold |-> from(8, 0, 0, <<"b", "e", "t", "a", "2">>), rules |-> DebugBatch],
    [threshold |-> from(8, 0, 0, <<"r", "c">>), rules |-> OverviewBatch],
    [threshold |-> from(8, 0, 0, Undefined), rules |-> BackfillPass],
    [threshold |-> from(8, 0, 2, Undefined), rules |-> KeymapBatch]
>>

NumBatches == Len(Batches)

AllRules == OverwritePass \o DebugBatch \o OverviewBatch \o BackfillPass \o KeymapBatch

Keys == {AllRules[i].src : i \in 1..Len(AllRules)}
            \cup {AllRules[i].dst : i \in 1..Len(AllRules)}

\* the gate with the comparison turned round (!== -1)
Applicable_inverted(prev, threshold) == compare(prev, threshold) # -1

\* the gate dropped: every block runs
Applicable_always(prev, threshold) == TRUE

\* the gate of a block: Versions.compare(previous, threshold) !== 1
Applicable(prev, threshold) == compare(prev, threshold) # 1

(***************************************************************************)
(* The migrationFn of each call.  A transform that throws yields Throw.    *)
(***************************************************************************)
\* one element of codeLens.perLanguageLocations mapped to its
\* { language, scopes, symbolScopes } form (lines 98-104)
ScopeOf(ls) == IF ls = "locations:js" THEN "scopes:js" ELSE ls

\* lines 97-106: v.map(...); v.map is not a function unless v is an array
ScopesFn(v) ==
    IF IsList(v) THEN List([i \in 1..Len(Elems(v)) |-> ScopeOf(Elems(v)[i])]) ELSE Throw

\* lines 119, 126: v ? 'line' : 'annotation'
OverFn(v) == IF Truthy(v) THEN Str("line") ELSE Str("annotation")

\* line 142: v => undefined
UndefinedFn(v) == Undefined

\* Array.prototype.indexOf + 1: first position of x in the sequence l, else 0
IndexOf(l, x) ==
    IF \E i \in 1..Len(l) : l[i] = x
    THEN CHOOSE i \in 1..Len(l) : l[i] = x /\ \A j \in 1..(i - 1) : l[j] # x
    ELSE 0

\* the transform returning its list only inside the if (no final return)
OverviewFn_noReturn(v) ==
    IF IsList(v)
    THEN LET index == IndexOf(Elems(v), "overviewRuler")
         IN  IF index # 0
             THEN List([Elems(v) EXCEPT ![index] = "overview"])
             ELSE Undefined
    ELSE Throw

\* lines 148-154: index = v.indexOf('overviewRuler'); splice(index, 1, 'overview').
\* A boolean has no indexOf and a string has no splice: both throw.
\* lines 148-154 and 159-165 writing 'overview' into the first slot
OverviewFn_firstSlot(v) ==
    IF IsList(v)
    THEN LET index == IndexOf(Elems(v), "overviewRuler")
         IN  IF index # 0 THEN List([Elems(v) EXCEPT ![1] = "overview"]) ELSE v
    ELSE IF v[1] = "str" /\ v[2] # "overviewRuler" THEN v
    ELSE Throw

OverviewFn(v) ==
    IF IsList(v)
    THEN LET index == IndexOf(Elems(v), "overviewRuler")
         IN  IF index # 0
             THEN List([Elems(v) EXCEPT ![index] = "overview"])
             ELSE v
    ELSE IF v[1] = "str" /\ v[2] # "overviewRuler" THEN v
    ELSE Throw

\* line 228: v === 'standard' ? KeyMap.Alternate : v
\* line 228 giving KeyMap.Alternate whatever the value
KeymapFn_always(v) == KeyMapAlternate

KeymapFn(v) == IF v = Str("standard") THEN KeyMapAlternate ELSE v

(***************************************************************************)
(* The configuration store adapter and configuration.migrate /             *)
(* configuration.migrateIfMissing.                                         *)
(***************************************************************************)
\* the default of a setting that has no explicit value
Default(k) == IF k = "outputLevel" THEN Str("silent") ELSE Undefined

\* has(path): the key is explicitly set
has(d, k) == d[k] # Undefined

\* get(path): the explicit value, else the default
get(d, k) == IF has(d, k) THEN d[k] ELSE Default(k)

\* set(path, value); a value of undefined removes the key
set(d, k, v) == [d EXCEPT ![k] = v]

\* the fallback of line 141 as a constant instead of the configured value
OutputLevelFn_constant(v, d) == IF Truthy(v) THEN OutputLevelDebug ELSE Default("outputLevel")

\* line 141: v ? OutputLevel.Debug : configuration.get('outputLevel')
OutputLevelFn(v, d) == IF Truthy(v) THEN OutputLevelDebug ELSE get(d, "outputLevel")

\* the migrationFn named fn applied to the source value v, the document being d
Transform(fn, v, d) ==
    CASE fn = "none"        -> v
      [] fn = "scopes"      -> ScopesFn(v)
      [] fn = "over"        -> OverFn(v)
      [] fn = "outputLevel" -> OutputLevelFn(v, d)
      [] fn = "undefined"   -> UndefinedFn(v)
      [] fn = "overview"    -> OverviewFn(v)
      [] fn = "keymap"      -> KeymapFn(v)

Skipped(d) == [doc |-> d, writes |-> 0]

Written(d, k, v) == [doc |-> set(d, k, v), writes |-> 1]

\* configuration.migrate / migrateIfMissing of rule r on document d: the
\* document afterwards and the number of store writes made
Migrate(d, r) ==
    IF r.kind = "migrateIfMissing" /\ has(d, r.dst) THEN Skipped(d)
    ELSE IF ~has(d, r.src)
         THEN IF r.fallback # Undefined THEN Written(d, r.dst, r.fallback) ELSE Skipped(d)
    ELSE LET newValue == Transform(r.fn, get(d, r.src), d)
         IN  IF newValue # Throw THEN Written(d, r.dst, newValue)
             ELSE IF r.fallback # Undefined THEN Written(d, r.dst, r.fallback)
             ELSE Skipped(d)

\* the number of occurrences of x in the list value v (0 for another value)
Occurrences(v, x) ==
    IF IsList(v) THEN Cardinality({i \in 1..Len(Elems(v)) : Elems(v)[i] = x}) ELSE 0

\* no list of document d holds 'overviewRuler' twice: the single occurrence
\* the list transform assumes
SingleOccurrence(d) == \A k \in Keys : Occurrences(d[k], "overviewRuler") <= 1

(***************************************************************************)
(* State.                                                                  *)
(***************************************************************************)
(***************************************************************************)
(* showWelcomePage, lines 244-274.                                         *)
(***************************************************************************)
\* a < b on JavaScript strings: by code unit, a proper prefix first
RECURSIVE StringLess(_, _)
StringLess(a, b) ==
    IF Len(b) = 0 THEN FALSE
    ELSE IF Len(a) = 0 THEN TRUE
    ELSE IF a[1] # b[1] THEN CharOrd(a[1]) < CharOrd(b[1])
    ELSE StringLess(Tail(a), Tail(b))

\* element i of the array destructured on lines 267-268
Part(parts, i) == IF i <= Len(parts) THEN parts[i] ELSE Undefined

\* a < b of line 272, where either side may be undefined
Less(a, b) == a # Undefined /\ b # Undefined /\ StringLess(a, b)

\* whether showWelcomePage(version, pv) executes Commands.ShowWelcomePage,
\* with Container.config.showWhatsNewAfterUpgrades as given
showWelcomePage(version, pv, showWhatsNewAfterUpgrades) ==
    IF pv = Undefined
    THEN \* lines 245-253
         showWhatsNewAfterUpgrades
    ELSE IF pv # version /\ fromString(pv) = ParseError
    THEN \* line 258 throws: the promise is rejected, nothing is executed
         FALSE
    ELSE IF pv # version /\ compare(fromString(pv), from(8, 0, 0, Undefined)) = 0
    THEN \* lines 258-261
         TRUE
    ELSE IF ~showWhatsNewAfterUpgrades
    THEN \* line 265
         FALSE
    ELSE LET major     == Part(Split(version, "."), 1)
             minor     == Part(Split(version, "."), 2)
             prevMajor == Part(Split(pv, "."), 1)
             prevMinor == Part(Split(pv, "."), 2)
         IN  IF major = prevMajor /\ minor = prevMinor
             THEN \* line 269
                  FALSE
             ELSE IF Less(major, prevMajor) \/ (major = prevMajor /\ Less(minor, prevMinor))
             THEN \* line 272
                  FALSE
             ELSE \* line 273
                  TRUE

VARIABLES
    doc,              \* the configuration document: explicit value of each key
    marker,           \* globalState[GitLensVersion], the persisted version string
    gitlensVersion,   \* the running version (packageJSON.version)
    pc,               \* where the current activation stands
    previousVersion,  \* activate's local: the marker as read on line 32
    previous,         \* migrateSettings' local: the parsed previousVersion
    batch,            \* the version-gated block migrateSettings is in
    idx,              \* the rule of that block awaited next
    cfg,              \* activate's local: the configuration read on line 35
    enabledCtx,       \* the command context CommandContext.Enabled
    logged,           \* Logger.error(ex, 'migrateSettings') was called in this run
    activations,      \* process starts so far
    doc0,             \* the document when the current activation started
    batches,          \* the blocks whose gate passed in this run
    welcomePage,      \* Commands.ShowWelcomePage was executed by this activation
    writes,           \* store writes made by this run
    prevRun           \* how the previous activation went: its end, the marker it
                      \* read, whether its document met the single-occurrence
                      \* assumption, the blocks it entered, whether it logged no error

vars == <<doc, marker, gitlensVersion, pc, previousVersion, previous, batch, idx, cfg,
          enabledCtx, logged, activations, doc0, batches, writes, prevRun,
          welcomePage>>

(***************************************************************************)
(* Initial documents and version strings.                                  *)
(***************************************************************************)
EmptyDoc == [k \in Keys |-> Undefined]

\* the document in which exactly the keys of f are set, to f's values
DocWith(f) == [k \in Keys |-> IF k \in DOMAIN f THEN f[k] ELSE Undefined]

HighlightElems == {"line", "overviewRuler"}

\* the lists of at most n highlight locations
ListsUpTo(n) == UNION {{List(l) : l \in [1..m -> HighlightElems]} : m \in 0..n}

\* the values drawn for the source and the destination of a rename
SourceValues(r) ==
    CASE r.fn = "over"   -> {True, False}
      [] r.fn = "scopes" -> {List(<<"locations:js">>), True}
      [] r.dst \in {"blame.highlight.locations", "recentChanges.highlight.locations"}
                         -> {True} \cup ListsUpTo(MaxLen)
      [] OTHER           -> {Str("legacy")}

DestinationValues(r) ==
    CASE r.fn = "over"   -> {Undefined, Str("line"), Str("annotation")}
      [] r.fn = "scopes" -> {Undefined, List(<<"scopes:ts">>)}
      [] r.dst \in {"blame.highlight.locations", "recentChanges.highlight.locations"}
                         -> {Undefined, List(<<"line">>)}
      [] OTHER           -> {Undefined, Str("current")}

\* documents around one rename: its source set, its destination set or not
RenameDocs ==
    UNION {{DocWith(Renames[i].src :> s @@ Renames[i].dst :> t) :
                s \in SourceValues(Renames[i]), t \in DestinationValues(Renames[i])} :
           i \in 1..Len(Renames)}

\* documents with only a current location list set
LocationDocs ==
    {DocWith(k :> v) : k \in {"blame.highlight.locations", "recentChanges.highlight.locations"},
                       v \in {True} \cup ListsUpTo(MaxLen)}

\* documents around the source that fans out to two destinations
FanOutDocs ==
    {DocWith("blame.line.enabled" :> s @@ "currentLine.enabled" :> t
                @@ "hovers.currentLine.enabled" :> u) :
        s \in {True, False}, t \in {Undefined, True, False}, u \in {Undefined, True, False}}

DebugDocs ==
    {DocWith("debug" :> d @@ "outputLevel" :> o) :
        d \in {Undefined, True, False},
        o \in {Undefined, Str("verbose"), OutputLevelDebug}}

KeymapDocs ==
    {DocWith("keymap" :> v) :
        v \in {Undefined, Str("standard"), Str("chorded"), Str("none"), KeyMapAlternate}}

InitDocs == RenameDocs \cup LocationDocs \cup FanOutDocs \cup DebugDocs \cup KeymapDocs

\* the decimal digits of n
RECURSIVE NumStr(_)
NumStr(n) == IF n < 10 THEN <<Digits[n + 1]>> ELSE NumStr(n \div 10) \o <<Digits[(n % 10) + 1]>>

\* the version string "major.minor.patch" or "major.minor.patch-pre"
VerStr(major, minor, patch, pre) ==
    NumStr(major) \o <<".">> \o NumStr(minor) \o <<".">> \o NumStr(patch)
        \o (IF pre = Undefined THEN <<>> ELSE <<"-">> \o pre)

Beta2 == <<"b", "e", "t", "a", "2">>

Rc == <<"r", "c">>

\* markers that do not parse
MalformedMarkers == {<<"8", ".", "x">>}

\* the markers a first activation may find
InitMarkers ==
    {Undefined} \cup MalformedMarkers \cup
    {VerStr(7, 5, 10, Undefined), VerStr(8, 0, 0, Beta2), VerStr(8, 0, 0, Rc),
     VerStr(8, 0, 0, Undefined), VerStr(8, 0, 2, Undefined), VerStr(8, 0, 3, Undefined)}

RunningVersions == {VerStr(8, 0, 3, Undefined)}

NoRun == [end |-> "none", pv |-> Undefined, single |-> TRUE, batches |-> {}, ok |-> TRUE]

InitWith(docs, markers, versions) ==
    /\ doc \in docs
    /\ marker \in markers
    /\ gitlensVersion \in versions
    /\ pc = "idle"
    /\ previousVersion = Undefined
    /\ previous = ParseError
    /\ batch = 0
    /\ idx = 0
    /\ cfg = EmptyDoc
    /\ enabledCtx = "unset"
    /\ logged = FALSE
    /\ activations = 0
    /\ doc0 = doc
    /\ batches = {}
    /\ writes = 0
    /\ prevRun = NoRun
    /\ welcomePage = FALSE

Init == InitWith(InitDocs, InitMarkers, RunningVersions)

(***************************************************************************)
(* activate, lines 14-33.                                                  *)
(***************************************************************************)
\* the version recorded before the git.enabled check
Activate_recordsVersion ==
    /\ pc \in {"idle", "done", "nogit", "aborted", "disabled"}
    /\ activations < MaxActivations
    /\ activations' = activations + 1
    /\ prevRun' = IF pc = "idle" THEN NoRun
                  ELSE [end |-> pc, pv |-> previousVersion, single |-> SingleOccurrence(doc0),
                        batches |-> batches, ok |-> ~logged]
    /\ doc0' = doc
    /\ batches' = {}
    /\ writes' = 0
    /\ logged' = FALSE
    /\ cfg' = EmptyDoc
    /\ previous' = ParseError
    /\ batch' = 0
    /\ idx' = 0
    /\ \E enabled \in BOOLEAN :
          IF ~enabled
          THEN \* lines 23-28
               /\ enabledCtx' = "false"
               /\ previousVersion' = Undefined
               /\ pc' = "disabled"
               /\ marker' = gitlensVersion
          ELSE \* lines 30-33
               /\ enabledCtx' = "unset"
               /\ previousVersion' = marker
               /\ pc' = "migrate"
               /\ marker' = marker
    /\ welcomePage' = FALSE
    /\ UNCHANGED <<doc, gitlensVersion>>

\* a process start: the extension is activated
Activate ==
    /\ pc \in {"idle", "done", "nogit", "aborted", "disabled"}
    /\ activations < MaxActivations
    /\ activations' = activations + 1
    /\ prevRun' = IF pc = "idle" THEN NoRun
                  ELSE [end |-> pc, pv |-> previousVersion, single |-> SingleOccurrence(doc0),
                        batches |-> batches, ok |-> ~logged]
    /\ doc0' = doc
    /\ batches' = {}
    /\ writes' = 0
    /\ logged' = FALSE
    /\ cfg' = EmptyDoc
    /\ previous' = ParseError
    /\ batch' = 0
    /\ idx' = 0
    /\ \E enabled \in BOOLEAN :
          IF ~enabled
          THEN \* lines 23-28
               /\ enabledCtx' = "false"
               /\ previousVersion' = Undefined
               /\ pc' = "disabled"
          ELSE \* lines 30-33
               /\ enabledCtx' = "unset"
               /\ previousVersion' = marker
               /\ pc' = "migrate"
    /\ welcomePage' = FALSE
    /\ UNCHANGED <<doc, marker, gitlensVersion>>

(***************************************************************************)
(* migrateSettings, lines 77-235.                                          *)
(***************************************************************************)
\* the early return of line 78 missing
IsFirstInstall_never(pv) == FALSE

\* line 78: nothing to migrate on a first install
IsFirstInstall(pv) == pv = Undefined

\* lines 78-82: the early return, the parse (outside the try block), the
\* entry into the try block
MigrateEnter ==
    /\ pc = "migrate"
    /\ IF IsFirstInstall(previousVersion)
       THEN pc' = "cfg" /\ UNCHANGED <<previous, batch>>
       ELSE IF fromString(previousVersion) = ParseError
            THEN \* the exception leaves migrateSettings and rejects activate
                 pc' = "aborted" /\ UNCHANGED <<previous, batch>>
            ELSE /\ previous' = fromString(previousVersion)
                 /\ batch' = 1
                 /\ pc' = "gate"
    /\ UNCHANGED <<doc, marker, gitlensVersion, previousVersion, idx, cfg, enabledCtx,
                   logged, activations, doc0, batches, writes, prevRun,
                   welcomePage>>

\* control after the last statement of block b: the next gate, or the return
AfterBatch(b) ==
    IF b < NumBatches
    THEN pc' = "gate" /\ batch' = b + 1 /\ idx' = 0
    ELSE pc' = "cfg" /\ batch' = 0 /\ idx' = 0

\* lines 83, 138, 145, 169, 224: the gate of the block
Gate ==
    /\ pc = "gate"
    /\ IF Applicable(previous, Batches[batch].threshold)
       THEN /\ batches' = batches \cup {batch}
            /\ idx' = 1
            /\ pc' = "rule"
            /\ UNCHANGED batch
       ELSE /\ AfterBatch(batch)
            /\ UNCHANGED batches
    /\ UNCHANGED <<doc, marker, gitlensVersion, previousVersion, previous, cfg, enabledCtx,
                   logged, activations, doc0, writes, prevRun,
                   welcomePage>>

\* one awaited configuration.migrate / migrateIfMissing call that completes
MigrateRule ==
    /\ pc = "rule"
    /\ LET r   == Batches[batch].rules[idx]
           res == Migrate(doc, r)
       IN  /\ doc' = res.doc
           /\ writes' = writes + res.writes
    /\ IF idx < Len(Batches[batch].rules)
       THEN idx' = idx + 1 /\ UNCHANGED <<pc, batch>>
       ELSE AfterBatch(batch)
    /\ UNCHANGED <<marker, gitlensVersion, previousVersion, previous, cfg, enabledCtx,
                   logged, activations, doc0, batches, prevRun,
                   welcomePage>>

\* a try/catch around each call instead of one around them all: the failure
\* is logged and the next rule is awaited
MigrateThrows_perRule ==
    /\ pc = "rule"
    /\ logged' = TRUE
    /\ IF idx < Len(Batches[batch].rules)
       THEN idx' = idx + 1 /\ UNCHANGED <<pc, batch>>
       ELSE AfterBatch(batch)
    /\ UNCHANGED <<doc, marker, gitlensVersion, previousVersion, previous, cfg, enabledCtx,
                   activations, doc0, batches, writes, prevRun,
                   welcomePage>>

\* one awaited call whose store access throws: lines 232-234 log and return
MigrateThrows ==
    /\ pc = "rule"
    /\ logged' = TRUE
    /\ pc' = "cfg"
    /\ batch' = 0
    /\ idx' = 0
    /\ UNCHANGED <<doc, marker, gitlensVersion, previousVersion, previous, cfg, enabledCtx,
                   activations, doc0, batches, writes, prevRun,
                   welcomePage>>

(***************************************************************************)
(* activate, lines 35-72.                                                  *)
(***************************************************************************)
\* lines 35-38: read the configuration, start GitService.initialize
\* line 35 placed before line 33: the snapshot taken before the migration
ReadConfig_beforeMigration ==
    /\ pc = "cfg"
    /\ cfg' = doc0
    /\ pc' = "gitinit"
    /\ UNCHANGED <<doc, marker, gitlensVersion, previousVersion, previous, batch, idx,
                   enabledCtx, logged, activations, doc0, batches, writes, prevRun,
                   welcomePage>>

ReadConfig ==
    /\ pc = "cfg"
    /\ cfg' = doc
    /\ pc' = "gitinit"
    /\ UNCHANGED <<doc, marker, gitlensVersion, previousVersion, previous, batch, idx,
                   enabledCtx, logged, activations, doc0, batches, writes, prevRun,
                   welcomePage>>

\* lines 40-47: GitService.initialize threw
GitInitFails ==
    /\ pc = "gitinit"
    /\ enabledCtx' = "false"
    /\ pc' = "nogit"
    /\ UNCHANGED <<doc, marker, gitlensVersion, previousVersion, previous, batch, idx, cfg,
                   logged, activations, doc0, batches, writes, prevRun,
                   welcomePage>>

\* the marker written only after a migration that logged no error
FinishActivation_onlyOnSuccess ==
    /\ pc = "gitinit"
    /\ marker' = IF logged THEN marker ELSE gitlensVersion
    /\ pc' = "done"
    /\ \E showWhatsNewAfterUpgrades \in BOOLEAN :
          welcomePage' = showWelcomePage(gitlensVersion, previousVersion,
                                         showWhatsNewAfterUpgrades)
    /\ UNCHANGED <<doc, gitlensVersion, previousVersion, previous, batch, idx, cfg,
                   enabledCtx, logged, activations, doc0, batches, writes, prevRun>>

\* the marker left as it was read
FinishActivation_staleMarker ==
    /\ pc = "gitinit"
    /\ marker' = previousVersion
    /\ pc' = "done"
    /\ \E showWhatsNewAfterUpgrades \in BOOLEAN :
          welcomePage' = showWelcomePage(gitlensVersion, previousVersion,
                                         showWhatsNewAfterUpgrades)
    /\ UNCHANGED <<doc, gitlensVersion, previousVersion, previous, batch, idx, cfg,
                   enabledCtx, logged, activations, doc0, batches, writes, prevRun>>

\* lines 49-71: the rest of the initialization, then the marker is written
FinishActivation ==
    /\ pc = "gitinit"
    /\ marker' = gitlensVersion
    /\ pc' = "done"
    /\ \E showWhatsNewAfterUpgrades \in BOOLEAN :
          welcomePage' = showWelcomePage(gitlensVersion, previousVersion,
                                         showWhatsNewAfterUpgrades)
    /\ UNCHANGED <<doc, gitlensVersion, previousVersion, previous, batch, idx, cfg,
                   enabledCtx, logged, activations, doc0, batches, writes, prevRun>>

Next ==
    \/ Activate
    \/ MigrateEnter
    \/ Gate
    \/ MigrateRule
    \/ MigrateThrows
    \/ ReadConfig
    \/ GitInitFails
    \/ FinishActivation

Spec == Init /\ [][Next]_vars

(***************************************************************************)
(* A second specification for the properties of the version ordering: the  *)
(* same program, started from a wide range of markers and running          *)
(* versions and a few documents.                                           *)
(***************************************************************************)
PreTags == {Undefined, Beta2, Rc}

Releases == {<<7, 5, 10>>, <<8, 0, 0>>, <<8, 0, 2>>, <<8, 0, 10>>, <<8, 5, 0>>}

AllVersions == {VerStr(r[1], r[2], r[3], pre) : r \in Releases, pre \in PreTags}

VersionDocs ==
    {EmptyDoc,
     DocWith("blame.line.enabled" :> True @@ "debug" :> True @@ "keymap" :> Str("standard")
                @@ "annotations.file.gutter.lineHighlight.locations"
                      :> List(<<"line", "overviewRuler">>))}

InitVersions == InitWith(VersionDocs, AllVersions \cup MalformedMarkers, AllVersions)

SpecVersions == InitVersions /\ [][Next]_vars

(***************************************************************************)
(* Properties.                                                             *)
(***************************************************************************)
\* migrateSettings has returned normally in the current activation
Returned == pc \in {"cfg", "gitinit", "nogit", "done"}

\* the previous activation ran migrateSettings to its return
PrevReturned == prevRun.end \in {"nogit", "done"}

\* the blocks whose gate passes for the parsed version v
ApplicableBatches(v) == {b \in 1..NumBatches : Applicable(v, Batches[b].threshold)}

\* v is past every threshold
PastAllThresholds(v) == \A b \in 1..NumBatches : compare(v, Batches[b].threshold) = 1

\* C1: two failure-free runs of migrateSettings in succession with the same
\* previousVersion, from a document whose lists hold 'overviewRuler' at most
\* once: the second run leaves the document as the first left it.
C1_Idempotent ==
    (/\ Returned /\ ~logged
     /\ PrevReturned /\ prevRun.ok
     /\ prevRun.pv = previousVersion
     /\ prevRun.single)
        => doc = doc0

C3_NeverRaises == pc # "aborted"

C5_MalformedMarkerTolerated ==
    /\ (pc \notin {"idle", "disabled", "migrate"} /\ previousVersion \in MalformedMarkers)
          => (batches = {} /\ writes = 0 /\ pc # "aborted")
    /\ (pc \notin {"idle", "disabled"} /\ prevRun.end = "aborted")
          => previousVersion # prevRun.pv

\* the source keys of the registered rules
SourceKeys == {AllRules[i].src : i \in 1..Len(AllRules)}

C7_OncePerUpgrade ==
    (prevRun.end = "done" /\ pc \notin {"idle", "disabled"})
        => (previousVersion = gitlensVersion /\ batches = {} /\ writes = 0)

\* C7 (amended): the same, for a running version past every threshold
\* (greater than 8.0.2).
C7_OncePerUpgradePastThresholds ==
    (/\ prevRun.end = "done" /\ pc \notin {"idle", "disabled"}
     /\ PastAllThresholds(fromString(gitlensVersion)))
        => (previousVersion = gitlensVersion /\ batches = {} /\ writes = 0)

\* an upgrade that migrated, followed by an activation that did not
C7_Witness ==
    /\ prevRun.end = "done" /\ prevRun.batches # {} /\ pc = "done"
    /\ PastAllThresholds(fromString(gitlensVersion))
    /\ batches = {}

\* C8: of two failure-free runs in succession, the one from the lower
\* previous version attempts a superset of the blocks of the other.
C8_Monotone ==
    (/\ Returned /\ ~logged /\ PrevReturned /\ prevRun.ok
     /\ previous # ParseError /\ fromString(prevRun.pv) # ParseError)
        => LET c == compare(fromString(prevRun.pv), previous)
           IN  /\ c = -1 => batches \subseteq prevRun.batches
               /\ c = 1 => prevRun.batches \subseteq batches

\* a lower version that attempted strictly more blocks than a higher one,
\* which attempted some
C8_Witness ==
    /\ Returned /\ ~logged /\ PrevReturned /\ prevRun.ok
    /\ previous # ParseError /\ fromString(prevRun.pv) # ParseError
    /\ compare(fromString(prevRun.pv), previous) = -1
    /\ batches # {} /\ batches # prevRun.batches

\* C9: with previousVersion undefined migrateSettings returns having entered
\* no block and written nothing: the document is as it was.
C9_FirstInstallNoOp ==
    (pc \notin {"idle", "disabled", "migrate"} /\ previousVersion = Undefined)
        => (batches = {} /\ writes = 0 /\ doc = doc0 /\ pc # "aborted")

\* a first install activated to its end, on a document with settings
C9_Witness ==
    pc = "done" /\ previousVersion = Undefined /\ doc # EmptyDoc /\ marker = gitlensVersion

\* C10: from a previous version past every threshold no block is entered
\* and nothing is written.
C10_PastThresholdsNoMutation ==
    (/\ pc \notin {"idle", "disabled", "migrate"}
     /\ previous # ParseError /\ PastAllThresholds(previous))
        => (batches = {} /\ writes = 0 /\ doc = doc0)

\* such a run returned, on a document the blocks would have changed
C10_Witness ==
    /\ Returned /\ previous # ParseError /\ PastAllThresholds(previous)
    /\ previousVersion # VerStr(8, 0, 3, Undefined)
    /\ has(doc, "debug") /\ has(doc, "blame.line.enabled")

\* the run went through every applicable block without a failure
CompleteRun == Returned /\ ~logged /\ previous # ParseError

\* C11: from a previous version at or below 7.5.10, a set blame.line.enabled
\* with neither destination set: after a failure-free run both
\* currentLine.enabled and hovers.currentLine.enabled hold its value, and
\* blame.line.enabled still holds it.
C11_FanOut ==
    (/\ CompleteRun /\ Applicable(previous, Batches[1].threshold)
     /\ has(doc0, "blame.line.enabled")
     /\ ~has(doc0, "currentLine.enabled") /\ ~has(doc0, "hovers.currentLine.enabled"))
        => /\ doc["currentLine.enabled"] = doc0["blame.line.enabled"]
           /\ doc["hovers.currentLine.enabled"] = doc0["blame.line.enabled"]
           /\ doc["blame.line.enabled"] = doc0["blame.line.enabled"]

\* the legacy value false fanned out to both destinations
C11_Witness ==
    /\ pc = "done" /\ CompleteRun /\ Applicable(previous, Batches[1].threshold)
    /\ doc0 = DocWith("blame.line.enabled" :> False)
    /\ doc["currentLine.enabled"] = False
    /\ doc["hovers.currentLine.enabled"] = False

\* C12: from a previous version at or below 8.0.0-beta2, after a failure-free
\* run: a legacy debug of true gives outputLevel Debug; a legacy debug of
\* false gives outputLevel the value it held before the run (its default when
\* it was not set); the rule has read debug before the next rule unsets it.
C12_DebugToOutputLevel ==
    (/\ CompleteRun /\ Applicable(previous, Batches[2].threshold)
     /\ has(doc0, "debug"))
        => /\ doc0["debug"] = True => doc["outputLevel"] = OutputLevelDebug
           /\ doc0["debug"] = False => doc["outputLevel"] = get(doc0, "outputLevel")
           /\ ~has(doc, "debug")

\* debug false with a non-default outputLevel, propagated
C12_Witness ==
    /\ pc = "done" /\ CompleteRun /\ Applicable(previous, Batches[2].threshold)
    /\ doc0["debug"] = False /\ doc0["outputLevel"] = Str("verbose")
    /\ doc["outputLevel"] = Str("verbose") /\ writes > 0

\* C13: an activation with git.enabled false enters no block, writes no
\* setting, leaves the marker alone without reading it, and sets the
\* Enabled context to false.
C13_DisabledShortCircuit ==
    [][pc' = "disabled" =>
          /\ marker' = marker /\ doc' = doc
          /\ previousVersion' = Undefined
          /\ batches' = {} /\ writes' = 0
          /\ enabledCtx' = "false"]_vars

\* a disabled activation over an older marker and a document with settings
C13_Witness ==
    /\ pc = "disabled" /\ enabledCtx = "false"
    /\ marker = VerStr(7, 5, 10, Undefined) /\ doc # EmptyDoc

\* document d after the rules i.. of a block have completed in order
RECURSIVE RunRules(_, _, _)
RunRules(d, rules, i) ==
    IF i > Len(rules) THEN d
    ELSE LET res == Migrate(d, rules[i])
         IN  IF res.writes = 0 THEN RunRules(d, rules, i + 1)
             ELSE RunRules(res.doc, rules, i + 1)

\* the document the overwriting rules alone (every block but the 8.0.0
\* backfill) make of document d
OverwriteOnly(d) ==
    LET d1 == RunRules(d, Batches[1].rules, 1)
        d2 == RunRules(d1, Batches[2].rules, 1)
        d3 == RunRules(d2, Batches[3].rules, 1)
    IN  RunRules(d3, Batches[5].rules, 1)

\* the destination keys of the rename registry
DestinationKeys == {Renames[i].dst : i \in 1..Len(Renames)}

\* C14: a migrateIfMissing rule of the 8.0.0 block leaves a destination that
\* is set when the rule runs as it is; and after a failure-free run from a
\* previous version at or below 7.5.10 every destination holds the value the
\* overwriting rules gave it.
C14_BackfillKeepsExplicit ==
    /\ [][(/\ pc = "rule" /\ batch = 4
           /\ Batches[4].rules[idx].kind = "migrateIfMissing"
           /\ has(doc, Batches[4].rules[idx].dst)) => doc' = doc]_vars
    /\ []((pc = "cfg" /\ CompleteRun /\ Applicable(previous, Batches[1].threshold))
            => \A k \in DestinationKeys : doc[k] = OverwriteOnly(doc0)[k])

\* the backfill has run over a destination the 8.0.0-rc rule had refined
C14_Witness ==
    /\ pc = "done" /\ CompleteRun /\ Applicable(previous, Batches[1].threshold)
    /\ doc0["annotations.file.gutter.lineHighlight.locations"] = List(<<"overviewRuler">>)
    /\ doc["blame.highlight.locations"] = List(<<"overview">>)
    /\ 4 \in batches

\* C15: the thresholds of the blocks ascend strictly under Versions.compare
\* (7.5.10 < 8.0.0-beta2 < 8.0.0-rc < 8.0.0 < 8.0.2); a rule is attempted
\* only in a block whose gate passed, the rules of a block are attempted in
\* order, and the next gate is reached only from a failed gate or from the
\* last rule of the block.
C15_AscendingBlocks ==
    /\ [](\A b \in 1..(NumBatches - 1) :
            compare(Batches[b].threshold, Batches[b + 1].threshold) = -1)
    /\ [][(pc \in {"gate", "rule"} /\ pc' \in {"gate", "rule"}) =>
            /\ pc' = "rule" => Applicable(previous', Batches[batch'].threshold)
            /\ \/ batch' = batch /\ pc' = "rule" /\ idx' = idx + 1
               \/ /\ batch' = batch + 1 /\ pc' = "gate"
                  /\ pc = "rule" => idx = Len(Batches[batch].rules)]_vars

\* the last block entered after all four before it
C15_Witness ==
    pc = "rule" /\ batch = NumBatches /\ batches = 1..NumBatches /\ writes > 0

\* the two pairs of legacy list and destination of the 8.0.0-rc block
HighlightPairs ==
    { <<"annotations.file.gutter.lineHighlight.locations", "blame.highlight.locations">>,
      <<"recentChanges.file.lineHighlight.locations", "recentChanges.highlight.locations">> }

\* C16 (as stated): from a previous version at or below 8.0.0-rc, when a legacy
\* highlight-locations list holds 'overviewRuler', after a failure-free run
\* its destination list does not hold 'overviewRuler'.
C16_RefinedAfterRename ==
    (CompleteRun /\ Applicable(previous, Batches[3].threshold))
        => \A p \in HighlightPairs :
              Occurrences(doc0[p[1]], "overviewRuler") >= 1
                  => Occurrences(doc[p[2]], "overviewRuler") = 0

\* the list the 8.0.0-rc rule reads in the current state, when it is at that rule
RcRuleAtList ==
    /\ pc = "rule" /\ batch = 3
    /\ IsList(doc[Batches[3].rules[idx].src])

\* across a completed 8.0.0-rc rule: the first 'overviewRuler' has become
\* 'overview' in place; length and every other element are kept
FirstReplaced ==
    LET r == Batches[3].rules[idx]
        v == Elems(doc[r.src])
        w == Elems(doc'[r.dst])
    IN  /\ IsList(doc'[r.dst])
        /\ Len(w) = Len(v)
        /\ \A i \in 1..Len(v) :
              w[i] = IF v[i] = "overviewRuler" /\ \A j \in 1..(i - 1) : v[j] # "overviewRuler"
                     THEN "overview" ELSE v[i]

\* C17 (as stated): the 8.0.0-rc list transform replaces 'overviewRuler' by
\* 'overview' in place, keeps length and other elements, leaves a list
\* without it unchanged, and for every list the result holds no
\* 'overviewRuler'.
C17_NoOverviewRulerLeft ==
    [][(RcRuleAtList /\ ~logged') =>
          /\ FirstReplaced
          /\ Occurrences(doc'[Batches[3].rules[idx].dst], "overviewRuler") = 0]_vars

\* C17 (amended): the same, but only the first 'overviewRuler' is replaced:
\* the result holds one occurrence fewer, hence none when the list held at
\* most one.
C17_FirstOccurrenceReplaced ==
    [][(RcRuleAtList /\ ~logged') =>
          LET r == Batches[3].rules[idx]
              n == Occurrences(doc[r.src], "overviewRuler")
          IN  /\ FirstReplaced
              /\ Occurrences(doc'[r.dst], "overviewRuler") = IF n = 0 THEN 0 ELSE n - 1]_vars

\* the rule has rewritten the second element of a list and kept the first
C17_Witness ==
    /\ pc = "rule" /\ batch = 3 /\ idx = 2
    /\ doc0["blame.highlight.locations"] = List(<<"line", "overviewRuler">>)
    /\ doc["blame.highlight.locations"] = List(<<"line", "overview">>)

\* C18: from a previous version at or below 8.0.2, after a failure-free run
\* keymap is Alternate when it was 'standard' or not set, and is the value it
\* had otherwise.
C18_Keymap ==
    (CompleteRun /\ Applicable(previous, Batches[5].threshold))
        => doc["keymap"] = IF doc0["keymap"] \in {Str("standard"), Undefined}
                           THEN KeyMapAlternate ELSE doc0["keymap"]

\* a keymap other than 'standard' kept by the rule
C18_Witness ==
    /\ pc = "done" /\ CompleteRun /\ Applicable(previous, Batches[5].threshold)
    /\ doc0["keymap"] = Str("chorded") /\ doc["keymap"] = Str("chorded")
    /\ 5 \in batches

\* C19: the document changes only in a rule step, one key at a time; the
\* snapshot read at line 35 is the document the migration left, and the
\* marker is written only after that snapshot was read.
C19_SequentialPass ==
    /\ [][/\ doc' # doc =>
                /\ pc = "rule"
                /\ Cardinality({k \in Keys : doc'[k] # doc[k]}) = 1
                /\ writes' = writes + 1
          /\ marker' # marker => (pc = "gitinit" /\ cfg = doc)]_vars
    /\ [](pc \in {"gitinit", "nogit", "done"} => cfg = doc)

\* the marker written after a run that changed settings, the snapshot
\* holding the changed document
C19_Witness ==
    /\ pc = "done" /\ writes > 1 /\ doc # doc0 /\ cfg = doc
    /\ marker = gitlensVersion /\ previousVersion # gitlensVersion

(***************************************************************************)
(* Upgrades and downgrades across one- and two-digit version numbers.      *)
(***************************************************************************)
WelcomeReleases ==
    { <<7, 5, 10>>, <<8, 0, 0>>, <<8, 0, 2>>, <<8, 5, 0>>, <<8, 10, 0>>, <<9, 0, 0>>,
      <<10, 0, 0>> }

WelcomeVersions == {VerStr(r[1], r[2], r[3], Undefined) : r \in WelcomeReleases}

InitWelcome == InitWith(VersionDocs, WelcomeVersions \cup {Undefined}, WelcomeVersions)

SpecWelcome == InitWelcome /\ [][Next]_vars

\* the running version's major.minor is numerically below the previous one's
Downgrade(version, pv) ==
    LET v == fromString(version)
        p == fromString(pv)
    IN  /\ v # ParseError /\ p # ParseError
        /\ \/ v.major < p.major
           \/ v.major = p.major /\ v.minor < p.minor

\* C20 (as stated): an activation whose running major.minor is numerically
\* below that of the previous version does not execute the welcome page
\* command.
C20_NoWelcomeOnDowngrade ==
    (pc = "done" /\ Downgrade(gitlensVersion, previousVersion)) => ~welcomePage

====
